---- MODULE Spec2Model ----
(***************************************************************************)
(* A model of generate-photo-metadata-csv.py: the image downsizer, the     *)
(* metadata client, the context derived from a file name, the batch loop   *)
(* that writes image_metadata.csv and the Qt window that drives it.        *)
(*                                                                         *)
(* Strings the program takes apart (file names) are sequences of           *)
(* one-character strings; None is the string NoneVal.                      *)
(***************************************************************************)
EXTENDS Integers, Sequences, FiniteSets, TLC

VARIABLES
    \* ---- the context derived from a file name (lines 136-164)
    filename,        \* a directory entry
    custom_context,  \* the context built for it
    cpc,             \* "entry" | "skipped" | "done"
    \* ---- downsize_image (lines 22-49)
    dpc,             \* "idle" | "loop" | "returned" | "error"
    file_size,       \* os.path.getsize(image_path)
    file_ver,        \* how many times image_path was replaced
    temp_writes,     \* how many times temp_file was written
    temp_size,       \* os.path.getsize(temp_file) after the last save, -1: no temp file
    quality,         \* the local variable quality
    last_quality,    \* the quality of the last img.save, 0: none yet
    calls,           \* number of calls of downsize_image so far
    at_call,         \* file_size, file_ver, temp_writes when the current call began
    \* ---- get_image_metadata (lines 74-93)
    mpc,             \* "call" | "returned" | "raised"
    response,        \* what requests.post returned
    result,          \* the tuple returned
    printed,         \* what the call printed
    \* ---- the window and the batch loop (lines 96-177)
    listing,         \* how many entries os.listdir gives for every folder
    stack,           \* the calls of start_processing in progress, innermost last
    disk,            \* image_metadata.csv of every folder, as the rows on disk
    status,          \* the lines of status_message
    progress,        \* the value of progress_bar
    window,          \* "shown" | "closed"
    proc,            \* "running" | "aborted"
    ev               \* the last step taken, with what it handled

ctxVars  == <<filename, custom_context, cpc>>
downVars == <<dpc, file_size, file_ver, temp_writes, temp_size, quality,
              last_quality, calls, at_call>>
metaVars == <<mpc, response, result, printed>>
uiVars   == <<listing, stack, disk, status, progress, window, proc, ev>>
vars     == <<ctxVars, downVars, metaVars, uiVars>>

(***************************************************************************)
(* Bounds of the model.                                                    *)
(***************************************************************************)
MaxStemLen == 4          \* characters of a file name before its extension
MaxCalls   == 2          \* calls of downsize_image on the same path
MaxImages  == 2          \* images of the largest folder
MaxDepth   == 2          \* calls of start_processing in progress at once

NoneVal == "<None>"

----------------------------------------------------------------------------
(***************************************************************************)
(* File names and the custom context.                                      *)
(***************************************************************************)
\* the characters str.isdigit() is true of: the ASCII digits and the other
\* digits of Unicode, of which the model has ARABIC-INDIC DIGIT THREE and
\* SUPERSCRIPT TWO; a character outside ASCII is written by its code point
Digits ==
    {"0", "1", "2", "3", "4", "5", "6", "7", "8", "9", "U+0663", "U+00B2"}

StemChars == {"a", "g", "7", "U+0663", "_", "."}

Extensions ==
    { <<".", "j", "p", "g">>, <<".", "J", "P", "E", "G">>, <<".", "t", "x", "t">> }

RECURSIVE SeqsUpTo(_, _)
SeqsUpTo(S, n) ==
    IF n = 0 THEN { <<>> }
    ELSE LET shorter == SeqsUpTo(S, n - 1)
         IN  shorter \cup { Append(s, c) : s \in shorter, c \in S }

Filenames == { s \o e : s \in SeqsUpTo(StemChars, MaxStemLen), e \in Extensions }

\* str.lower() on the characters a file name of the model is made of
LowerChar(c) ==
    CASE c = "J" -> "j" [] c = "P" -> "p" [] c = "E" -> "e" [] c = "G" -> "g"
      [] OTHER -> c

Lower(s) == [k \in 1..Len(s) |-> LowerChar(s[k])]

\* str.endswith(suffix)
EndsWith(s, suffix) ==
    /\ Len(s) >= Len(suffix)
    /\ SubSeq(s, Len(s) - Len(suffix) + 1, Len(s)) = suffix

\* filename.lower().endswith((".jpg", ".jpeg"))
IsImage(name) ==
    \/ EndsWith(Lower(name), <<".", "j", "p", "g">>)
    \/ EndsWith(Lower(name), <<".", "j", "p", "e", "g">>)

\* str.split(sep) for a one-character sep: empty pieces are kept
RECURSIVE Split(_, _)
Split(s, sep) ==
    IF \A k \in 1..Len(s) : s[k] # sep THEN << s >>
    ELSE LET p == CHOOSE k \in 1..Len(s) :
                     s[k] = sep /\ \A j \in 1..(k - 1) : s[j] # sep
         IN  << SubSeq(s, 1, p - 1) >> \o Split(SubSeq(s, p + 1, Len(s)), sep)

\* str.isdigit(): at least one character, and every character a digit
IsDigit(c) == c # <<>> /\ \A k \in 1..Len(c) : c[k] \in Digits

\* sep.join(parts)
RECURSIVE Join(_, _)
Join(sep, parts) ==
    IF parts = <<>> THEN <<>>
    ELSE IF Len(parts) = 1 THEN parts[1]
    ELSE parts[1] \o sep \o Join(sep, Tail(parts))

\* the filter of the list comprehension: c != "g" and not c.isdigit()
KeepToken(c) == c # <<"g">> /\ ~IsDigit(c)

\* " ".join([c for c in filename.split(".")[0].split("_") if ...])
CustomContext(name) ==
    Join(<<" ">>, SelectSeq(Split(Split(name, ".")[1], "_"), KeepToken))

CtxInit ==
    /\ filename \in Filenames
    /\ custom_context = <<>>
    /\ cpc = "entry"

\* the comprehension skips a directory entry that is no image
SkipEntry ==
    /\ UNCHANGED <<downVars, metaVars, uiVars>>
    /\ cpc = "entry"
    /\ ~IsImage(filename)
    /\ cpc' = "skipped"
    /\ UNCHANGED <<filename, custom_context>>

\* the loop body derives the context of an image of the work list
DeriveContext ==
    /\ UNCHANGED <<downVars, metaVars, uiVars>>
    /\ cpc = "entry"
    /\ IsImage(filename)
    /\ custom_context' = CustomContext(filename)
    /\ cpc' = "done"
    /\ UNCHANGED filename

----------------------------------------------------------------------------
(***************************************************************************)
(* downsize_image.  The size a re-encode produces is any of Sizes, chosen  *)
(* afresh at every save: the encoder is outside the program.               *)
(***************************************************************************)
max_size_mb == 10

MaxSizeBytes(mb) == mb * 1024 * 1024

Sizes ==
    { MaxSizeBytes(max_size_mb) - 1, MaxSizeBytes(max_size_mb),
      MaxSizeBytes(max_size_mb) + 1, 2 * MaxSizeBytes(max_size_mb) }

FirstQuality == 95
QualityStep  == 5
QualityFloor == 5

UnderLimitStrict(size, mb) == size < MaxSizeBytes(mb)

\* original_size <= max_size_bytes
UnderLimit(size, mb) == size <= MaxSizeBytes(mb)

StopSavingNoFloor(size, q, mb) == size <= MaxSizeBytes(mb)

\* os.path.getsize(temp_file) <= max_size_bytes or quality <= 5
StopSaving(size, q, mb) == size <= MaxSizeBytes(mb) \/ q <= QualityFloor

DownInit ==
    /\ dpc = "idle"
    /\ file_size \in Sizes
    /\ file_ver = 0
    /\ temp_writes = 0
    /\ temp_size = -1
    /\ quality = 0
    /\ last_quality = 0
    /\ calls = 0
    /\ at_call = [size |-> 0, ver |-> 0, writes |-> 0]

\* lines 27-37: the call up to the loop; Image.open may raise on a corrupt file
DownsizeCall ==
    /\ UNCHANGED <<ctxVars, metaVars, uiVars>>
    /\ dpc \in {"idle", "returned"}
    /\ calls < MaxCalls
    /\ calls' = calls + 1
    /\ at_call' = [size |-> file_size, ver |-> file_ver, writes |-> temp_writes]
    /\ last_quality' = 0
    /\ IF UnderLimit(file_size, max_size_mb)
       THEN /\ dpc' = "returned"
            /\ UNCHANGED quality
       ELSE \E opened \in BOOLEAN :
               /\ dpc' = IF opened THEN "loop" ELSE "error"
               /\ quality' = IF opened THEN FirstQuality ELSE quality
    /\ UNCHANGED <<file_size, file_ver, temp_writes, temp_size>>

\* lines 40-49: one img.save and what follows it, up to the next save
DownsizeSave ==
    /\ UNCHANGED <<ctxVars, metaVars, uiVars>>
    /\ dpc = "loop"
    /\ \E size \in Sizes :
          /\ temp_writes' = temp_writes + 1
          /\ last_quality' = quality
          /\ IF StopSaving(size, quality, max_size_mb)
             THEN \* break, then shutil.move(temp_file, image_path)
                  /\ file_size' = size
                  /\ file_ver' = file_ver + 1
                  /\ temp_size' = -1
                  /\ dpc' = "returned"
                  /\ UNCHANGED quality
             ELSE /\ temp_size' = size
                  /\ quality' = quality - QualityStep
                  /\ UNCHANGED <<file_size, file_ver, dpc>>
    /\ UNCHANGED <<calls, at_call>>

----------------------------------------------------------------------------
(***************************************************************************)
(* get_image_metadata, from the response of requests.post on.              *)
(* A response is its status code, whether its body parses as a JSON        *)
(* object, whether that object has a non-null "data", and data itself: a   *)
(* function from the keys it holds to their values.                        *)
(***************************************************************************)
Keys == {"title", "description", "keywords"}

Titles       == {"", "Sunset"}
Descriptions == {"", "A beach"}
KeywordLists == { <<>>, <<"sand", "sunset">> }

Restrict(f, K) == [k \in K |-> f[k]]

DataDicts ==
    UNION { { Restrict(full, K) :
                full \in [title : Titles, description : Descriptions,
                          keywords : KeywordLists] } : K \in SUBSET Keys }

StatusCodes == {200, 401, 500}

Responses ==
    [status : StatusCodes, json : {"object"}, has_data : {TRUE}, data : DataDicts]
      \cup [status : StatusCodes, json : {"object", "invalid"}, has_data : {FALSE},
            data : { Restrict([title |-> ""], {}) }]

\* dict.get(key, default)
Get(d, key, default) == IF key \in DOMAIN d THEN d[key] ELSE default

EmptyResult == <<NoneVal, NoneVal, <<>> >>

FailedLine(code) == [text |-> "Failed to fetch metadata. Status code", code |-> code]

FetchedLines(code) ==
    << [text |-> "Metadata fetched", code |-> code], [text |-> "Title", code |-> code],
       [text |-> "Description", code |-> code], [text |-> "Keywords", code |-> code] >>

GetImageMetadataAlwaysLogs(resp) ==
    IF resp.status = 200 /\ resp.json = "invalid"
    THEN [raised |-> TRUE, result |-> EmptyResult, printed |-> <<>>]
    ELSE IF resp.status = 200 /\ resp.has_data /\ DOMAIN resp.data # {}
    THEN [raised |-> FALSE,
          result |-> << Get(resp.data, "title", ""), Get(resp.data, "description", ""),
                        Get(resp.data, "keywords", <<>>) >>,
          printed |-> FetchedLines(resp.status)]
    ELSE [raised |-> FALSE, result |-> EmptyResult,
          printed |-> << FailedLine(resp.status) >>]

\* lines 74-93.  response.json() raises when the body of a 200 is no JSON; the
\* else of line 88 belongs to the test of the status alone.
GetImageMetadata(resp) ==
    IF resp.status = 200
    THEN IF resp.json = "invalid"
         THEN [raised |-> TRUE, result |-> EmptyResult, printed |-> <<>>]
         ELSE IF resp.has_data /\ DOMAIN resp.data # {}
         THEN [raised |-> FALSE,
               result |-> << Get(resp.data, "title", ""),
                             Get(resp.data, "description", ""),
                             Get(resp.data, "keywords", <<>>) >>,
               printed |-> FetchedLines(resp.status)]
         ELSE [raised |-> FALSE, result |-> EmptyResult, printed |-> <<>>]
    ELSE [raised |-> FALSE, result |-> EmptyResult,
          printed |-> << FailedLine(resp.status) >>]

MetaInit ==
    /\ mpc = "call"
    /\ response \in Responses
    /\ result = EmptyResult
    /\ printed = <<>>

\* the call from line 74 to its return or to the exception it lets through
HandleResponse ==
    /\ UNCHANGED <<ctxVars, downVars, uiVars>>
    /\ mpc = "call"
    /\ LET r == GetImageMetadata(response)
       IN  /\ mpc' = IF r.raised THEN "raised" ELSE "returned"
           /\ result' = r.result
           /\ printed' = r.printed
    /\ UNCHANGED response

----------------------------------------------------------------------------
(***************************************************************************)
(* The batch loop and the window.                                          *)
(*                                                                         *)
(* A folder holds the first listing[folder] images of ImageNames.  A csv   *)
(* file on disk is the string of its bytes (the text of the model is       *)
(* ASCII, one byte a character in utf-8).  A writer holds the rows it was  *)
(* given (rows): Python keeps what is written to a text file in the file   *)
(* object's buffer, 8 KiB, and writes its bytes at the file object's own   *)
(* offset when the file is closed; the csv files of the model are smaller  *)
(* than the buffer.  QApplication.processEvents() delivers the events that *)
(* are pending, a click on select_folder_button among them, so that        *)
(* start_processing can be called while a call of it is in progress.       *)
(***************************************************************************)
\* the names of the images a folder can hold, in the order os.listdir gives them
ImageNames == << "beach_01.jpg", "city_99_g.jpg", "img_3.JPG", "d.jpeg" >>

Folders == {"A", "B"}

NoFolder == "-"

\* images_to_process, lines 136-141: the entries of the folder that are images
\* (SkipEntry and DeriveContext above are the filter and the context of one entry)
ImagesToProcess(folder) == [k \in 1..listing[folder] |-> ImageNames[k]]

Header == <<"Image Name", "Title", "Description", "Keywords">>

\* a row left on disk by an earlier run of the program
OldRow == <<"old.jpg", "Old", "Old", "old">>

\* ", ".join(keywords)
RECURSIVE JoinKeywords(_)
JoinKeywords(keywords) ==
    IF keywords = <<>> THEN ""
    ELSE IF Len(keywords) = 1 THEN keywords[1]
    ELSE keywords[1] \o ", " \o JoinKeywords(Tail(keywords))

\* the row of line 172
Row(name, res) == <<name, res[1], res[2], JoinKeywords(res[3])>>

WritesRowAlways(res) == TRUE

\* if title and keywords
WritesRow(res) == (res[1] # NoneVal /\ res[1] # "") /\ res[3] # <<>>

\* the string s holds the character c
HasChar(s, c) == \E k \in 1..Len(s) : SubSeq(s, k, k) = c

\* csv.writer doubles the quote characters of a field it quotes
RECURSIVE DoubleQuotes(_)
DoubleQuotes(s) ==
    IF s = "" THEN ""
    ELSE (IF Head(s) = "\"" THEN "\"\"" ELSE Head(s)) \o DoubleQuotes(Tail(s))

\* a field as csv.writer writes it (excel dialect, QUOTE_MINIMAL): quoted when
\* it holds the delimiter, the quote character or a character of a line end
CsvField(s) ==
    IF HasChar(s, ",") \/ HasChar(s, "\"") \/ HasChar(s, "\r") \/ HasChar(s, "\n")
    THEN "\"" \o DoubleQuotes(s) \o "\""
    ELSE s

\* writer.writerow(row): the fields, commas between them, and "\r\n" (the file
\* is opened with newline="", the line end is written as it is)
CsvLine(row) ==
    CsvField(row[1]) \o "," \o CsvField(row[2]) \o "," \o CsvField(row[3])
        \o "," \o CsvField(row[4]) \o "\r\n"

\* the bytes of the rows given to a writer, in their order
RECURSIVE CsvBytes(_)
CsvBytes(rows) ==
    IF rows = <<>> THEN "" ELSE CsvLine(Head(rows)) \o CsvBytes(Tail(rows))

\* a write of the bytes `buf` at byte offset `at` (within the file) of the
\* file content `old`: the bytes of `old` after the written ones stay
WriteAt(old, at, buf) ==
    SubSeq(old, 1, at) \o buf \o SubSeq(old, at + Len(buf) + 1, Len(old))

OpenAppend(old) == old

\* open(..., mode="w"): the file is created or truncated
OpenTruncate(old) == ""

\* csv_file.close(): the bytes of the rows of the writer of frame fr, written
\* at offset 0, the offset of a file object opened with mode "w"
Flush(fr, old) == WriteAt(old, 0, CsvBytes(fr.rows))

RECURSIVE Gcd(_, _)
Gcd(a, b) == IF b = 0 THEN a ELSE Gcd(b, a % b)

\* the fractions p/q in lowest terms for which p / q * 100 lies half way
\* between two integers and the float Python computes for it is rounded up
\* by round(); for the other such fractions round() gives the integer below.
\* q = 8: the float is exact, round() takes the even neighbour.  q = 40 and
\* q = 200: p / q is not a binary fraction and the float lies beside the half
\* (23 / 40 * 100 is 57.49999999999999, 109 / 200 * 100 is 54.50000000000001).
RoundsUp ==
    [q \in {8, 40, 200} |->
        CASE q = 8  -> {3, 7}
          [] q = 40 -> {3, 7, 11, 19, 27, 31, 39}
          [] q = 200 ->
               {3, 7, 11, 19, 23, 27, 31, 39, 43, 47, 51, 59, 63, 67, 71, 79,
                83, 87, 91, 99, 103, 107, 109, 111, 119, 123, 127, 131, 139,
                143, 147, 151, 159, 163, 167, 171, 179, 183, 187, 191, 199}]

\* int(round(processed / total * 100)) in floating point: the quotient is the
\* float nearest to the fraction, so that the result depends on the fraction
\* in lowest terms alone; off the half-way cases the error of the float is
\* too small to change the nearest integer
Progress(processed, total) ==
    LET g == Gcd(processed, total)
        p == processed \div g
        q == total \div g
        n == p * 100
        f == n \div q
        r == n % q
    IN  IF 2 * r = q THEN (IF p \in RoundsUp[q] THEN f + 1 ELSE f)
        ELSE IF 2 * r > q THEN f + 1 ELSE f

NotStarted == << "Processing Not Started" >>
Running    == << "Processing Running..." >>
Completed  == << "Processing Completed", "Close Window to Exit" >>

\* the responses the loop is run against: a 500, and the 200s with a full data
\* whose title or keywords may be empty
RunResponses ==
    { r \in Responses :
        /\ r.json = "object"
        /\ \/ r.status = 500 /\ ~r.has_data
           \/ /\ r.status = 200 /\ r.has_data /\ DOMAIN r.data = Keys
              /\ r.data.description = "A beach"
              /\ r.data.title = "Sunset" \/ r.data.keywords # <<>> }

\* a 200 whose body is no JSON
BadBody == CHOOSE r \in Responses : r.status = 200 /\ r.json = "invalid"

\* what can come of lines 67-72: an exception out of downsize_image or out of
\* requests.post, no answer at all (requests.post is called without a timeout
\* and waits as long as the server keeps the connection open), or a response
Outcomes ==
    [error : {"decode", "network", "hang"}, resp : {BadBody}]
      \cup [error : {"none"}, resp : RunResponses \cup {BadBody}]

\* the for loop of line 155 has no image left
LoopDone(fr) == fr.i >= Len(ImagesToProcess(fr.folder))

DialogFrame ==
    [pc |-> "dialog", folder |-> NoFolder, i |-> 0, resps |-> <<>>, rows |-> <<>>,
     nreq |-> 0]

Top == stack[Len(stack)]

Pop == SubSeq(stack, 1, Len(stack) - 1)

SetTop(fr) == [stack EXCEPT ![Len(stack)] = fr]

Event(type, fr) ==
    [type |-> type, depth |-> Len(stack), folder |-> fr.folder, resps |-> fr.resps,
     rows |-> fr.rows, nreq |-> fr.nreq]

NoEvent ==
    [type |-> "none", depth |-> 0, folder |-> NoFolder, resps |-> <<>>, rows |-> <<>>,
     nreq |-> 0]

UIInit ==
    /\ listing \in [Folders -> 0..MaxImages]
    /\ stack = <<>>
    /\ \E old \in { "", CsvBytes(<<Header, OldRow, OldRow, OldRow>>) } :
          disk = [folder \in Folders |-> old]
    /\ status = NotStarted
    /\ progress = -1
    /\ window = "shown"
    /\ proc = "running"
    /\ ev = NoEvent

\* the event loop is free to deliver an event: app.exec_() is idle, or the
\* innermost call of start_processing is inside processEvents()
Delivering == proc = "running" /\ (IF stack = <<>> THEN TRUE ELSE Top.pc = "yield")

\* a click on select_folder_button: start_processing opens the folder dialog
Click ==
    /\ UNCHANGED <<ctxVars, downVars, metaVars>>
    /\ Delivering
    /\ window = "shown"
    /\ Len(stack) < MaxDepth
    /\ stack' = Append(stack, DialogFrame)
    /\ ev' = NoEvent
    /\ UNCHANGED <<listing, disk, status, progress, window, proc>>

\* the user closes the window; a loop in progress goes on
CloseWindow ==
    /\ UNCHANGED <<ctxVars, downVars, metaVars>>
    /\ Delivering
    /\ window = "shown"
    /\ window' = "closed"
    /\ ev' = NoEvent
    /\ UNCHANGED <<listing, stack, disk, status, progress, proc>>

\* the dialog is dismissed: selected_folder is "", start_processing returns
DialogCancel ==
    /\ UNCHANGED <<ctxVars, downVars, metaVars>>
    /\ proc = "running" /\ stack # <<>> /\ Top.pc = "dialog"
    /\ stack' = Pop
    /\ ev' = NoEvent
    /\ UNCHANGED <<listing, disk, status, progress, window, proc>>

\* lines 129-153: a folder is chosen, the status set, the work list built, the
\* csv opened and its header written
DialogChoose ==
    /\ UNCHANGED <<ctxVars, downVars, metaVars>>
    /\ proc = "running" /\ stack # <<>> /\ Top.pc = "dialog"
    /\ \E folder \in Folders :
          LET fr == [pc |-> "run", folder |-> folder, i |-> 0, resps |-> <<>>,
                     rows |-> <<Header>>, nreq |-> 0]
          IN  /\ status' = Running
              /\ disk' = [disk EXCEPT ![folder] = OpenTruncate(@)]
              /\ stack' = SetTop(fr)
              /\ ev' = Event("chosen", fr)
    /\ UNCHANGED <<listing, progress, window, proc>>

\* lines 155-176 for one image: the context, the upload, the row, the progress;
\* or the exception that leaves the with block, which closes the csv, and
\* start_processing.  Qt then either ends the process (PyQt5 from 5.5 on) or
\* prints the traceback and goes on delivering events.  An upload that gets
\* no answer leaves the GUI thread in requests.post.
ProcessImage ==
    /\ UNCHANGED <<ctxVars, downVars, metaVars>>
    /\ proc = "running" /\ stack # <<>> /\ Top.pc = "run"
    /\ Top.i < Len(ImagesToProcess(Top.folder))
    /\ \E out \in Outcomes :
          LET name  == ImagesToProcess(Top.folder)[Top.i + 1]
              total == Len(ImagesToProcess(Top.folder))
              meta  == GetImageMetadata(out.resp)
              sent  == IF out.error = "decode" THEN Top.nreq ELSE Top.nreq + 1
          IN  IF out.error = "hang"
              THEN /\ stack' = SetTop([Top EXCEPT !.pc = "posting", !.nreq = sent])
                   /\ ev' = NoEvent
                   /\ UNCHANGED <<listing, disk, status, progress, window, proc>>
              ELSE IF out.error # "none" \/ meta.raised
              THEN \E fatal \in BOOLEAN :
                      /\ disk' = [disk EXCEPT ![Top.folder] = Flush(Top, @)]
                      /\ stack' = IF fatal THEN <<>> ELSE Pop
                      /\ proc' = IF fatal THEN "aborted" ELSE "running"
                      /\ ev' = Event("raised", [Top EXCEPT !.nreq = sent])
                      /\ UNCHANGED <<listing, status, progress, window>>
              ELSE LET rows == IF WritesRow(meta.result)
                                THEN Append(Top.rows, Row(name, meta.result))
                                ELSE Top.rows
                       fr   == [Top EXCEPT !.rows = rows, !.nreq = sent,
                                           !.resps = Append(@, out.resp),
                                           !.i = @ + 1, !.pc = "yield"]
                   IN  /\ stack' = SetTop(fr)
                       /\ progress' = Progress(fr.i, total)
                       /\ ev' = Event("processed", fr)
                       /\ UNCHANGED <<listing, disk, status, window, proc>>

\* line 177: processEvents() returns
YieldReturn ==
    /\ UNCHANGED <<ctxVars, downVars, metaVars>>
    /\ proc = "running" /\ stack # <<>> /\ Top.pc = "yield"
    /\ stack' = SetTop([Top EXCEPT !.pc = "run"])
    /\ ev' = NoEvent
    /\ UNCHANGED <<listing, disk, status, progress, window, proc>>

\* the loop is over: the with block closes the csv, lines 132-133 append to
\* the status, start_processing returns
Finish ==
    /\ UNCHANGED <<ctxVars, downVars, metaVars>>
    /\ proc = "running" /\ stack # <<>> /\ Top.pc = "run"
    /\ LoopDone(Top)
    /\ disk' = [disk EXCEPT ![Top.folder] = Flush(Top, @)]
    /\ status' = status \o Completed
    /\ stack' = Pop
    /\ ev' = Event("completed", Top)
    /\ UNCHANGED <<listing, progress, window, proc>>

----------------------------------------------------------------------------
(***************************************************************************)
(* The specifications: the program, and each of its functions on its own.  *)
(***************************************************************************)
CtxRest == filename = <<>> /\ custom_context = <<>> /\ cpc = "off"

DownRest ==
    /\ dpc = "off" /\ file_size = 0 /\ file_ver = 0 /\ temp_writes = 0
    /\ temp_size = -1 /\ quality = 0 /\ last_quality = 0 /\ calls = 0
    /\ at_call = [size |-> 0, ver |-> 0, writes |-> 0]

MetaRest == mpc = "off" /\ response = <<>> /\ result = EmptyResult /\ printed = <<>>

UIRest ==
    /\ listing = <<>> /\ stack = <<>> /\ disk = <<>> /\ status = NotStarted /\ progress = -1
    /\ window = "shown" /\ proc = "off"
    /\ ev = NoEvent

Init == UIInit /\ CtxRest /\ DownRest /\ MetaRest

Next ==
    \/ Click
    \/ CloseWindow
    \/ DialogCancel
    \/ DialogChoose
    \/ ProcessImage
    \/ YieldReturn
    \/ Finish

Spec == Init /\ [][Next]_vars

\* a click that arrives while app.exec_() is idle
ClickIdle == stack = <<>> /\ Click

SeqNext ==
    \/ ClickIdle
    \/ CloseWindow
    \/ DialogCancel
    \/ DialogChoose
    \/ ProcessImage
    \/ YieldReturn
    \/ Finish

\* the program when no click arrives inside processEvents()
SeqSpec == Init /\ [][SeqNext]_vars

CtxSpecInit == CtxInit /\ DownRest /\ MetaRest /\ UIRest

CtxNext == SkipEntry \/ DeriveContext

CtxSpec == CtxSpecInit /\ [][CtxNext]_vars

DownSpecInit == DownInit /\ CtxRest /\ MetaRest /\ UIRest

DownNext == DownsizeCall \/ DownsizeSave

DownSpec == DownSpecInit /\ [][DownNext]_vars

MetaSpecInit == MetaInit /\ CtxRest /\ DownRest /\ UIRest

MetaNext == HandleResponse

MetaSpec == MetaSpecInit /\ [][MetaNext]_vars

\* the GUI thread runs: the loop takes its next step and processEvents()
\* returns.  Whether an upload is answered is an outcome of ProcessImage, not
\* a matter of fairness: a frame left in requests.post takes no further step.
FairSeqSpec ==
    SeqSpec /\ WF_vars(ProcessImage) /\ WF_vars(YieldReturn) /\ WF_vars(Finish)

----------------------------------------------------------------------------
(***************************************************************************)
(* What the claims speak of.                                               *)
(***************************************************************************)
\* a response with a non-empty title and a non-empty keyword list
Described(resp) ==
    /\ resp.status = 200 /\ resp.json = "object" /\ resp.has_data
    /\ "title" \in DOMAIN resp.data /\ resp.data.title # ""
    /\ "keywords" \in DOMAIN resp.data /\ resp.data.keywords # <<>>

\* the first column of the rows given to a writer
NameColumn(csv) == [k \in 1..Len(csv) |-> csv[k][1]]

\* the first column of the csv that holds the header and one row for each
\* described image among the first Len(resps) of names, in their order
RECURSIVE DescribedNames(_, _)
DescribedNames(names, resps) ==
    IF resps = <<>> THEN << Header[1] >>
    ELSE LET n == Len(resps)
         IN  DescribedNames(names, SubSeq(resps, 1, n - 1))
               \o (IF Described(resps[n]) THEN << names[n] >> ELSE <<>>)

IsHeaderAndRows(csv, names, resps) ==
    /\ csv # <<>> /\ csv[1] = Header
    /\ NameColumn(csv) = DescribedNames(names, resps)

\* the rows of the csv that holds the header and one row for each described
\* image among the first Len(resps) of names, in their order
RECURSIVE DescribedRows(_, _)
DescribedRows(names, resps) ==
    IF resps = <<>> THEN << Header >>
    ELSE LET n == Len(resps)
         IN  DescribedRows(names, SubSeq(resps, 1, n - 1))
               \o (IF Described(resps[n])
                   THEN << Row(names[n], GetImageMetadata(resps[n]).result) >>
                   ELSE <<>>)

\* the lines of a file: its line ends
Lines(bytes) == Cardinality({ k \in 1..Len(bytes) : SubSeq(bytes, k, k) = "\n" })

\* the file is the csv of the header and the rows of the described images
IsCsvOfDescribed(bytes, names, resps) ==
    /\ bytes = CsvBytes(DescribedRows(names, resps))
    /\ Lines(bytes) = Len(DescribedNames(names, resps))

\* the frames of the stack that are in process_images_in_folder
RunningFrames == { k \in DOMAIN stack : stack[k].pc # "dialog" }

----------------------------------------------------------------------------
\* C1: a run that completes leaves a csv made of the header and exactly one
\* row for each image whose response has a non-empty title and a non-empty
\* keyword list, in the order of the work list (N+1 lines when all N are).
C1_CompletedCsv ==
    ev.type = "completed" =>
        /\ Len(ev.resps) = Len(ImagesToProcess(ev.folder))
        /\ IsCsvOfDescribed(disk[ev.folder], ImagesToProcess(ev.folder), ev.resps)

\* C2: a run on a folder without images completes, raises nothing (no
\* division by zero) and leaves a csv that is the header row alone.
C2_EmptyFolder ==
    /\ ev.type = "completed" /\ ImagesToProcess(ev.folder) = <<>> =>
          disk[ev.folder] = CsvLine(Header)
    /\ ev.type = "raised" => ImagesToProcess(ev.folder) # <<>>
    /\ \A k \in RunningFrames :
          ImagesToProcess(stack[k].folder) = <<>> =>
              stack[k].pc = "run" /\ stack[k].nreq = 0

C2_Witness ==
    /\ ev.type = "completed" /\ ImagesToProcess(ev.folder) = <<>>
    /\ status = Running \o Completed

\* C3: an image whose upload is answered with a status other than 200 gets
\* no row from its run, one request was issued for each image processed
\* (no retry), and the run goes on to its last image, the rows of the other
\* images being what they are without the failure.
C3_Run(fr, unanswered) ==
    LET names == ImagesToProcess(fr.folder)
    IN  /\ fr.nreq = Len(fr.resps) + unanswered
        /\ \A j \in DOMAIN fr.resps :
              fr.resps[j].status # 200 =>
                  \A k \in DOMAIN fr.rows : fr.rows[k][1] # names[j]
        /\ IsHeaderAndRows(fr.rows, names, fr.resps)

C3_FailedUploadSkipped ==
    /\ \A k \in RunningFrames :
          /\ C3_Run(stack[k], IF stack[k].pc = "posting" THEN 1 ELSE 0)
          /\ stack[k].i = Len(stack[k].resps)
    /\ ev.type = "completed" =>
          C3_Run(ev, 0) /\ Len(ev.resps) = Len(ImagesToProcess(ev.folder))

C3_Witness ==
    /\ ev.type = "completed"
    /\ \E j \in DOMAIN ev.resps :
          /\ ev.resps[j].status # 200
          /\ \E l \in DOMAIN ev.resps : l > j /\ Described(ev.resps[l])

\* C4: when an exception is raised at the k-th image the run is over, its csv
\* is closed, and the csv on disk holds the header and exactly the rows of
\* the described images among the first k-1; no later image is uploaded.
C4_RaisedCsv ==
    ev.type = "raised" =>
        /\ Len(stack) < ev.depth
        /\ ev.nreq <= Len(ev.resps) + 1
        /\ IsCsvOfDescribed(disk[ev.folder], ImagesToProcess(ev.folder), ev.resps)

\* C5: at most one run is in progress at any time, and no two runs hold the
\* same image_metadata.csv open.
C5_OneRun ==
    /\ Cardinality(RunningFrames) <= 1
    /\ \A k, l \in RunningFrames : k # l => stack[k].folder # stack[l].folder

\* C6: the context of a file name is its stem (the name without its
\* extension) split on "_", the pieces that are "g" or all digits dropped,
\* the others joined in their order with one space; no piece of it is "g" or
\* all digits.
StripExtension(name) ==
    LET dots == { k \in 1..Len(name) : name[k] = "." }
    IN  IF dots = {} THEN name
        ELSE SubSeq(name, 1, (CHOOSE k \in dots : \A j \in dots : j <= k) - 1)

AllDigits(piece) == piece # <<>> /\ \A k \in 1..Len(piece) : piece[k] \in Digits

Survives(piece) == piece # <<"g">> /\ ~AllDigits(piece)

C6_ContextOfStem ==
    cpc = "done" =>
        /\ custom_context =
              Join(<<" ">>, SelectSeq(Split(StripExtension(filename), "_"), Survives))
        /\ \A k \in DOMAIN Split(custom_context, " ") :
              Survives(Split(custom_context, " ")[k])

\* C7: downsize_image on a file of at most max_size_mb megabytes changes
\* nothing: the file is the same, no temporary file is written; so a second
\* call after a call that brought the file under the limit changes nothing.
C7_NoOpUnderLimit ==
    dpc = "returned" /\ at_call.size <= 10 * 1024 * 1024 =>
        /\ file_size = at_call.size
        /\ file_ver = at_call.ver
        /\ temp_writes = at_call.writes
        /\ temp_size = -1

C7_Witness ==
    /\ dpc = "returned" /\ calls = 2
    /\ at_call.ver = 1 /\ at_call.size <= 10 * 1024 * 1024
    /\ file_ver = 1

\* C8: the loop of downsize_image saves at most 19 times, at the qualities
\* 95, 90, ..., 5 in this order, goes on only after a save that is over the
\* limit at a quality above 5, and ends at the first save that is within the
\* limit or at quality 5, that save replacing the original.
C8_Saves == temp_writes - at_call.writes

C8_QualityLoop ==
    /\ C8_Saves <= 19
    /\ C8_Saves >= 1 => last_quality = 95 - 5 * (C8_Saves - 1) /\ last_quality >= 5
    /\ dpc = "loop" =>
          /\ quality = 95 - 5 * C8_Saves /\ quality >= 5
          /\ C8_Saves >= 1 => temp_size > 10 * 1024 * 1024 /\ last_quality > 5
    /\ dpc = "returned" /\ C8_Saves >= 1 =>
          /\ file_size <= 10 * 1024 * 1024 \/ last_quality = 5
          /\ file_ver = at_call.ver + 1
          /\ temp_size = -1

C8_Witness ==
    /\ dpc = "returned" /\ C8_Saves = 19
    /\ last_quality = 5 /\ file_size > 10 * 1024 * 1024

\* C9: the status is set to "Processing Running..." when a run begins, before
\* any image is processed; "Processing Completed" is appended only when the
\* last image of the run has been processed; no step ends a run before its
\* last image unless an exception is raised; and a run that has begun ends.
C9_StatusStep ==
    status' # status =>
        \/ /\ status' = Running
           /\ stack # <<>> /\ Top.pc = "dialog"
           /\ Len(stack') = Len(stack)
           /\ stack'[Len(stack')].pc = "run"
           /\ stack'[Len(stack')].i = 0 /\ stack'[Len(stack')].nreq = 0
        \/ /\ status' = status \o Completed
           /\ stack # <<>> /\ Top.pc = "run"
           /\ Top.i = Len(ImagesToProcess(Top.folder))
           /\ stack' = Pop

C9_RunStep ==
    \A k \in RunningFrames :
        \/ /\ k \in DOMAIN stack' /\ stack'[k].pc # "dialog"
           /\ stack'[k].folder = stack[k].folder /\ stack'[k].i >= stack[k].i
        \/ /\ k = Len(stack) /\ stack' = Pop
           /\ stack[k].i = Len(ImagesToProcess(stack[k].folder))
           /\ status' = status \o Completed
        \/ ev'.type = "raised"

C9_Running(k) == k \in DOMAIN stack /\ stack[k].pc # "dialog"

\* the order of the status lines and the absence of a step that ends a run
\* early
C9_StatusOrder ==
    /\ [](RunningFrames # {} => status[1] = Running[1])
    /\ [][C9_StatusStep /\ C9_RunStep]_vars

\* C9 in full: the order of the status lines, and every run that has begun
\* ends, by appending "Processing Completed" or in an exception
C9_RunningThenCompleted ==
    /\ C9_StatusOrder
    /\ \A k \in 1..MaxDepth : C9_Running(k) ~> ~C9_Running(k)

\* C10: get_image_metadata returns (None, None, []) and prints the line with
\* the status code both when the status is not 200 and when the status is 200
\* and data is missing or empty.
C10_DataMissing == response.status = 200 /\ (~response.has_data \/ DOMAIN response.data = {})

C10_EmptyResultAndLine ==
    mpc = "returned" /\ (response.status # 200 \/ C10_DataMissing) =>
        /\ result = <<NoneVal, NoneVal, <<>> >>
        /\ printed = << FailedLine(response.status) >>

\* C10 as amended: (None, None, []) is returned in both cases; the line with
\* the status code is printed when the status is not 200, and nothing is
\* printed when the status is 200 and data is missing or empty.
C10_EmptyResultLineOnStatus ==
    mpc = "returned" =>
        /\ response.status # 200 =>
              /\ result = <<NoneVal, NoneVal, <<>> >>
              /\ printed = << FailedLine(response.status) >>
        /\ C10_DataMissing =>
              /\ result = <<NoneVal, NoneVal, <<>> >>
              /\ printed = <<>>

C10_Witness == mpc = "returned" /\ C10_DataMissing /\ response.has_data

====
